---- MODULE Spec2Model ----
(***************************************************************************)
(* Aliasing, views and copies of numpy arrays, as exercised by the         *)
(* notebook ECCO_v4_Operating_on_Numpy_Arrays.ipynb.                       *)
(*                                                                         *)
(* A Buffer is a block of numbers in memory; a Handle is what a Python     *)
(* name is bound to: an ndarray (a view [lo, hi) of one Buffer) or a       *)
(* DataArray (a composite of a data Buffer and a coordinate Buffer).       *)
(* 1-D arrays stand for the notebook's a = np.array([1, 2, 3, 4, 5]); the  *)
(* composite SSH stands for output_all.SSH, whose leading integer indices  *)
(* (time, tile) are one row index here and whose trailing ranges (j, i)    *)
(* are one column range.                                                   *)
(***************************************************************************)
EXTENDS Integers, Sequences, FiniteSets, TLC

\* Length of the arrays made by np.array (5 in the notebook).
MaxLen == 3
\* Rows (integer-indexed dimensions) and columns (range-indexed) of SSH.
NRows == 2
NCols == 2
\* Largest element an arithmetic result may hold (besides TEN).
MaxVal == 3
\* Number of operations (cells' statements) one run performs.
MaxSteps == 2
\* The value the notebook writes: b[3] = 10, ssh_tmp[:] = 10.
TEN == 10

\* The notebook's variables; SSH is output_all.SSH, which is never rebound.
Names == {"a", "b"}
SSH == "SSH"
AllNames == Names \cup {SSH}
Parts == {"data", "coord"}
Scalars == {0, 1}
OpNames == {"add", "multiply"}

VARIABLES heap, env, last, steps
vars == <<heap, env, last, steps>>

\* Memory never runs out: every handle can reference Buffers of its own,
\* and one more expression can be evaluated before its target is rebound.
MaxBuf == 2 * Cardinality(AllNames) + 2
BufIds == 1..MaxBuf
Freed == [alive |-> FALSE, data |-> <<>>]
Live(d) == [alive |-> TRUE, data |-> d]

None == [kind |-> "none"]
Arr(b, lo, hi) == [kind |-> "array", buf |-> b, lo |-> lo, hi |-> hi]
Comp(b, c) == [kind |-> "composite", buf |-> b, cbuf |-> c]

Min(x, y) == IF x <= y THEN x ELSE y
Max(x, y) == IF x >= y THEN x ELSE y

\* The flat view [buf, lo, hi) of a handle's part.
View(h, part) ==
    IF h.kind = "array" THEN [buf |-> h.buf, lo |-> h.lo, hi |-> h.hi]
    ELSE IF part = "data" THEN [buf |-> h.buf, lo |-> 0, hi |-> NRows * NCols]
    ELSE [buf |-> h.cbuf, lo |-> 0, hi |-> NCols]

\* Every Buffer reachable from a handle.
Reachable(h) ==
    IF h.kind = "none" THEN {}
    ELSE IF h.kind = "array" THEN {h.buf}
    ELSE {h.buf, h.cbuf}

\* The aliasing query: do two handles reference the same (top-level) Buffer?
SharesBuffer(x, y) ==
    /\ x.kind # "none"
    /\ y.kind # "none"
    /\ View(x, "data").buf = View(y, "data").buf

\* The elements seen through a view.
ReadView(h, v) == SubSeq(h[v.buf].data, v.lo + 1, v.hi)
Read(h, e, n, part) == ReadView(h, View(e[n], part))

Referenced(e) == UNION {Reachable(e[n]) : n \in AllNames}

\* Reference counting: a Buffer no handle references any more is released.
Release(h, e) ==
    [i \in BufIds |-> IF i \in Referenced(e) THEN h[i] ELSE Freed]

FreeIds(h) == {i \in BufIds : ~h[i].alive}
NewId(h) == CHOOSE i \in FreeIds(h) : \A j \in FreeIds(h) : i <= j

\* Mutant of Rebind: the rebound name is taken for the sole owner of its
\* Buffers, which are released whoever else references them.
RebindOwning(d, hnd, h) ==
    /\ env' = [env EXCEPT ![d] = hnd]
    /\ heap' = [i \in BufIds |->
                  IF i \in Reachable(env[d]) \ Reachable(hnd) THEN Freed ELSE h[i]]

\* name = <handle>: the name is rebound, its old handle is destroyed.
Rebind(d, hnd, h) ==
    /\ env' = [env EXCEPT ![d] = hnd]
    /\ heap' = Release(h, [env EXCEPT ![d] = hnd])

\* The statement last executed: its operation, target, source, outcome and,
\* for a slice, the requested <<row, start, stop>>.
Done(op, d, s, arg, e) == [op |-> op, dst |-> d, src |-> s, arg |-> arg, err |-> e]
Ok(op, d, s) == Done(op, d, s, <<>>, "ok")
Fail(op, d, s, e) == Done(op, d, s, <<>>, e)

Iota(n) == [i \in 1..n |-> i]

Init ==
    /\ heap = [i \in BufIds |->
                 IF i = 1 THEN Live(Iota(MaxLen))
                 ELSE IF i = 2 THEN Live(Iota(NRows * NCols))
                 ELSE IF i = 3 THEN Live(Iota(NCols))
                 ELSE Freed]
    /\ env = [n \in AllNames |->
                 IF n = "a" THEN Arr(1, 0, MaxLen)
                 ELSE IF n = SSH THEN Comp(2, 3)
                 ELSE None]
    /\ last = Ok("init", "a", "a")
    /\ steps = 0

\* a = np.array([1, 2, 3, 4, 5])
NewArray(d) ==
    /\ FreeIds(heap) # {}
    /\ LET b == NewId(heap) IN
         Rebind(d, Arr(b, 0, MaxLen), [heap EXCEPT ![b] = Live(Iota(MaxLen))])
    /\ last' = Ok("new", d, d)

\* Mutant of ShallowCopyArray: the "copy" is another handle on the source.
ShallowCopyAlias(h, hnd, b) == [hd |-> hnd, hp |-> h]

\* np.copy(a) for an ndarray: a new Buffer b holding the elements of a's view.
ShallowCopyArray(h, hnd, b) ==
    [hd |-> Arr(b, 0, hnd.hi - hnd.lo),
     hp |-> [h EXCEPT ![b] = Live(ReadView(h, View(hnd, "data")))]]

\* Mutant of ShallowCopyComposite: the data Buffer is duplicated as well.
ShallowCopyCompositeDeep(h, hnd, b) ==
    [hd |-> Comp(b, hnd.cbuf), hp |-> [h EXCEPT ![b] = Live(h[hnd.buf].data)]]

\* A shallow copy of a composite: a new container whose nested handles are
\* those of the source.
ShallowCopyComposite(h, hnd, b) == [hd |-> hnd, hp |-> h]

\* Mutant of Bind: assignment copies the array.
BindCopies(d, s) ==
    /\ env[s].kind = "array"
    /\ LET c == ShallowCopyArray(heap, env[s], NewId(heap)) IN Rebind(d, c.hd, c.hp)
    /\ last' = Ok("bind", d, s)

\* b = a
Bind(d, s) ==
    /\ env[s].kind # "none"
    /\ Rebind(d, env[s], heap)
    /\ last' = Ok("bind", d, s)

\* Python's slice of a dimension of length n, for start, stop >= 0.
SliceLo(start, n) == Min(start, n)
SliceHi(start, stop, n) == Max(Min(start, n), Min(stop, n))

\* Mutant of Slice: indexing returns a copy of the selected elements.
SliceCopies(d, s, r, start, stop) ==
    /\ env[s].kind # "none"
    /\ env[s].kind = "array" => r = 0
    /\ LET v == View(env[s], "data")
           n == IF env[s].kind = "array" THEN v.hi - v.lo ELSE NCols
           base == IF env[s].kind = "array" THEN v.lo ELSE r * NCols
           sel == Arr(v.buf, base + SliceLo(start, n), base + SliceHi(start, stop, n))
           c == ShallowCopyArray(heap, sel, NewId(heap))
       IN IF env[s].kind = "composite" /\ r >= NRows
          THEN /\ UNCHANGED <<heap, env>>
               /\ last' = Done("slice", d, s, <<r, start, stop>>, "IndexOutOfRange")
          ELSE /\ Rebind(d, c.hd, c.hp)
               /\ last' = Done("slice", d, s, <<r, start, stop>>, "ok")

\* Mutant of Slice: the integer index is not checked against the shape but
\* clamped to the last row.
SliceUnchecked(d, s, r, start, stop) ==
    /\ env[s].kind # "none"
    /\ env[s].kind = "array" => r = 0
    /\ LET v == View(env[s], "data")
           n == IF env[s].kind = "array" THEN v.hi - v.lo ELSE NCols
           base == IF env[s].kind = "array" THEN v.lo ELSE Min(r, NRows - 1) * NCols
       IN /\ Rebind(d, Arr(v.buf, base + SliceLo(start, n),
                           base + SliceHi(start, stop, n)), heap)
          /\ last' = Done("slice", d, s, <<r, start, stop>>, "ok")

\* d = s[start:stop] for an ndarray s;
\* d = s[r, start:stop].values for a DataArray s (r an integer index).
Slice(d, s, r, start, stop) ==
    /\ env[s].kind # "none"
    /\ env[s].kind = "array" => r = 0
    /\ LET v == View(env[s], "data")
           n == IF env[s].kind = "array" THEN v.hi - v.lo ELSE NCols
           base == IF env[s].kind = "array" THEN v.lo ELSE r * NCols
       IN IF env[s].kind = "composite" /\ r >= NRows
          THEN /\ UNCHANGED <<heap, env>>
               /\ last' = Done("slice", d, s, <<r, start, stop>>, "IndexOutOfRange")
          ELSE /\ Rebind(d, Arr(v.buf, base + SliceLo(start, n),
                                base + SliceHi(start, stop, n)), heap)
               /\ last' = Done("slice", d, s, <<r, start, stop>>, "ok")

Apply(op, x, y) == IF op = "add" THEN x + y ELSE x * y
Representable(x) == x <= MaxVal \/ x = TEN

\* Mutant of Compatible: any two shapes are taken to fit.
CompatibleAny(m, n) == TRUE

\* numpy broadcasting of two 1-D shapes.
Compatible(m, n) == m = n \/ m = 1 \/ n = 1
BroadcastLen(m, n) == IF m = 1 THEN n ELSE m
Stretch(x, n) == IF Len(x) = n THEN x ELSE [i \in 1..n |-> x[1]]

\* Mutant of ElementwiseOp: an operation that changes no element (adding 0,
\* multiplying by 1) hands back its left operand.
ElementwiseOpShortcut(d, op, l, r, k) ==
    /\ env[l].kind = "array"
    /\ r # "" => env[r].kind = "array"
    /\ FreeIds(heap) # {}
    /\ LET x == Read(heap, env, l, "data")
           y == IF r = "" THEN <<k>> ELSE Read(heap, env, r, "data")
           n == BroadcastLen(Len(x), Len(y))
           z == [i \in 1..n |-> Apply(op, Stretch(x, n)[i], Stretch(y, n)[i])]
           b == NewId(heap)
       IN IF ~Compatible(Len(x), Len(y))
          THEN /\ UNCHANGED <<heap, env>>
               /\ last' = Fail("op", d, l, "ShapeMismatch")
          ELSE /\ \A i \in 1..n : Representable(z[i])
               /\ IF z = x
                  THEN Rebind(d, env[l], heap)
                  ELSE Rebind(d, Arr(b, 0, n), [heap EXCEPT ![b] = Live(z)])
               /\ last' = Ok("op", d, l)

\* d = l + k, d = l * k (right a scalar), d = l + r, d = l * r (right an array)
ElementwiseOp(d, op, l, r, k) ==
    /\ env[l].kind = "array"
    /\ r # "" => env[r].kind = "array"
    /\ FreeIds(heap) # {}
    /\ LET x == Read(heap, env, l, "data")
           y == IF r = "" THEN <<k>> ELSE Read(heap, env, r, "data")
           n == BroadcastLen(Len(x), Len(y))
           z == [i \in 1..n |-> Apply(op, Stretch(x, n)[i], Stretch(y, n)[i])]
           b == NewId(heap)
       IN IF ~Compatible(Len(x), Len(y))
          THEN /\ UNCHANGED <<heap, env>>
               /\ last' = Fail("op", d, l, "ShapeMismatch")
          ELSE /\ \A i \in 1..n : Representable(z[i])
               /\ Rebind(d, Arr(b, 0, n), [heap EXCEPT ![b] = Live(z)])
               /\ last' = Ok("op", d, l)

\* b = np.copy(a)
ShallowCopy(d, s) ==
    /\ env[s].kind # "none"
    /\ FreeIds(heap) # {}
    /\ LET c == IF env[s].kind = "array"
                THEN ShallowCopyArray(heap, env[s], NewId(heap))
                ELSE ShallowCopyComposite(heap, env[s], NewId(heap))
       IN Rebind(d, c.hd, c.hp)
    /\ last' = Ok("copy", d, s)

\* Mutant of DeepCopyOf: only the data Buffer of a composite is duplicated,
\* the coordinate Buffer stays shared.
DeepCopySharesCoord(h, hnd, b, c) ==
    IF hnd.kind = "array"
    THEN ShallowCopyArray(h, hnd, b)
    ELSE [hd |-> Comp(b, hnd.cbuf), hp |-> [h EXCEPT ![b] = Live(h[hnd.buf].data)]]

\* deepcopy(x): every Buffer reachable from x is duplicated.
DeepCopyOf(h, hnd, b, c) ==
    IF hnd.kind = "array"
    THEN ShallowCopyArray(h, hnd, b)
    ELSE [hd |-> Comp(b, c),
          hp |-> [h EXCEPT ![b] = Live(h[hnd.buf].data),
                           ![c] = Live(h[hnd.cbuf].data)]]

\* ssh_tmp = deepcopy(output_all.SSH)
DeepCopy(d, s) ==
    /\ env[s].kind # "none"
    /\ Cardinality(FreeIds(heap)) >= 2
    /\ LET b == NewId(heap)
           c == NewId([heap EXCEPT ![b] = Live(<<>>)])
           r == DeepCopyOf(heap, env[s], b, c)
       IN Rebind(d, r.hd, r.hp)
    /\ last' = Ok("deepcopy", d, s)

\* Mutant of Store: the write runs one element past the end of the view.
StoreSpills(h, v, vals) ==
    [h EXCEPT ![v.buf].data =
        [i \in 1..Len(@) |->
            IF v.lo < i /\ i <= v.hi + 1 THEN vals[Min(i - v.lo, Len(vals))] ELSE @[i]]]

\* The Buffers after writing vals (already of the view's length) over view v.
Store(h, v, vals) ==
    [h EXCEPT ![v.buf].data =
        [i \in 1..Len(@) |-> IF v.lo < i /\ i <= v.hi THEN vals[i - v.lo] ELSE @[i]]]

\* The values as broadcast over a view of n elements in rows of width w.
Tile(x, n, w) == [i \in 1..n |-> IF Len(x) = 1 THEN x[1] ELSE x[((i - 1) % w) + 1]]

\* Mutant of MutateInPlace: the elements are written one by one and the
\* shapes are found not to fit only when the values run out.
MutateInPlacePartial(t, part, s, k) ==
    /\ env[t].kind # "none"
    /\ env[t].kind = "array" => part = "data"
    /\ s # "" => env[s].kind = "array"
    /\ LET v == View(env[t], part)
           n == v.hi - v.lo
           w == IF env[t].kind = "array" THEN n ELSE NCols
           x == IF s = "" THEN <<k>> ELSE Read(heap, env, s, "data")
           m == Min(Len(x), n)
       IN IF Len(x) # 1 /\ Len(x) # w
          THEN /\ heap' = Store(heap, [v EXCEPT !.hi = v.lo + m], x)
               /\ UNCHANGED env
               /\ last' = Fail("mutate", t, s, "ShapeMismatch")
          ELSE /\ heap' = Store(heap, v, Tile(x, n, w))
               /\ UNCHANGED env
               /\ last' = Ok("mutate", t, s)

\* Mutant of MutateInPlace: a write through a view that covers only a part
\* of its Buffer goes to a private copy of that part, to which the target
\* is rebound (copy on write).
MutateInPlaceDetaches(t, part, s, k) ==
    /\ env[t].kind # "none"
    /\ env[t].kind = "array" => part = "data"
    /\ s # "" => env[s].kind = "array"
    /\ LET v == View(env[t], part)
           n == v.hi - v.lo
           w == IF env[t].kind = "array" THEN n ELSE NCols
           x == IF s = "" THEN <<k>> ELSE Read(heap, env, s, "data")
           c == ShallowCopyArray(heap, env[t], NewId(heap))
       IN IF Len(x) # 1 /\ Len(x) # w
          THEN /\ UNCHANGED <<heap, env>>
               /\ last' = Fail("mutate", t, s, "ShapeMismatch")
          ELSE /\ IF env[t].kind = "array" /\ n < Len(heap[v.buf].data)
                  THEN Rebind(t, c.hd, Store(c.hp, View(c.hd, "data"), Tile(x, n, w)))
                  ELSE heap' = Store(heap, v, Tile(x, n, w)) /\ UNCHANGED env
               /\ last' = Ok("mutate", t, s)

\* t[:] = 10, t[:] = s (part: the data or the coordinate of a DataArray t)
MutateInPlace(t, part, s, k) ==
    /\ env[t].kind # "none"
    /\ env[t].kind = "array" => part = "data"
    /\ s # "" => env[s].kind = "array"
    /\ LET v == View(env[t], part)
           n == v.hi - v.lo
           w == IF env[t].kind = "array" THEN n ELSE NCols
           x == IF s = "" THEN <<k>> ELSE Read(heap, env, s, "data")
       IN IF Len(x) # 1 /\ Len(x) # w
          THEN /\ UNCHANGED <<heap, env>>
               /\ last' = Fail("mutate", t, s, "ShapeMismatch")
          ELSE /\ heap' = Store(heap, v, Tile(x, n, w))
               /\ UNCHANGED env
               /\ last' = Ok("mutate", t, s)

\* b[3] = 10
SetItem(t, i, k) ==
    /\ env[t].kind = "array"
    /\ LET v == View(env[t], "data") IN
         IF i >= v.hi - v.lo
         THEN /\ UNCHANGED <<heap, env>>
              /\ last' = Fail("setitem", t, "", "IndexOutOfRange")
         ELSE /\ heap' = Store(heap, [v EXCEPT !.lo = v.lo + i, !.hi = v.lo + i + 1], <<k>>)
              /\ UNCHANGED env
              /\ last' = Ok("setitem", t, "")

\* The length of the dimension a slice of s ranges over.  Requests are drawn
\* up to one past it: every stop beyond the end behaves like that one.
Extent(s) ==
    IF env[s].kind = "array" THEN env[s].hi - env[s].lo
    ELSE IF env[s].kind = "composite" THEN NCols ELSE 0

\* One statement of the notebook is executed.
Step == steps < MaxSteps /\ steps' = steps + 1

Next ==
    \/ \E d \in Names : Step /\ NewArray(d)
    \/ \E d \in Names, s \in AllNames : Step /\ Bind(d, s)
    \/ \E d \in Names, s \in AllNames, r \in 0..NRows, start \in 0..MaxLen :
          \E stop \in (start + 1)..(Extent(s) + 1) : Step /\ Slice(d, s, r, start, stop)
    \/ \E d \in Names, op \in OpNames, l \in Names, r \in Names \cup {""}, k \in Scalars :
          Step /\ ElementwiseOp(d, op, l, r, k)
    \/ \E d \in Names, s \in AllNames : Step /\ ShallowCopy(d, s)
    \/ \E d \in Names, s \in AllNames : Step /\ DeepCopy(d, s)
    \/ \E t \in AllNames, part \in Parts, s \in Names \cup {""} :
          Step /\ MutateInPlace(t, part, s, TEN)
    \/ \E t \in Names, i \in 0..MaxLen : Step /\ SetItem(t, i, TEN)

Spec == Init /\ [][Next]_vars

\* Handles derived from handles.  A run of up to MaxChain statements, one
\* more than MaxSteps, so that a handle two derivations away from an
\* original can be written through.  Slices trim one end at a time (s[1:],
\* s[:-1]) or keep the range (s[:]): any narrower view is a slice of a slice.
\* As in the notebook, np.copy is applied to arrays and deepcopy to
\* DataArrays.
MaxChain == MaxSteps + 1
ChainStep == steps < MaxChain /\ steps' = steps + 1
Trims(s) == {<<0, Extent(s)>>, <<1, Extent(s)>>, <<0, Extent(s) - 1>>}

ChainNext ==
    \/ \E d \in Names, s \in AllNames : ChainStep /\ Bind(d, s)
    \/ \E d \in Names, s \in AllNames, r \in 0..(NRows - 1) :
          \E q \in Trims(s) : ChainStep /\ q[1] < q[2] /\ Slice(d, s, r, q[1], q[2])
    \/ \E d \in Names, op \in OpNames, l \in Names, r \in Names \cup {""}, k \in Scalars :
          ChainStep /\ (r # "" => k = 0) /\ ElementwiseOp(d, op, l, r, k)
    \/ \E d \in Names, s \in AllNames :
          ChainStep /\ env[s].kind = "array" /\ ShallowCopy(d, s)
    \/ \E d \in Names, s \in AllNames :
          ChainStep /\ env[s].kind = "composite" /\ DeepCopy(d, s)
    \/ \E t \in AllNames, part \in Parts, s \in Names \cup {""} :
          ChainStep /\ MutateInPlace(t, part, s, TEN)

SpecChain == Init /\ [][ChainNext]_vars

----------------------------------------------------------------------------
\* The statement executed by a step, as recorded in last'.
StepOf(op) == steps' = steps + 1 /\ last'.op = op
Did(op) == StepOf(op) /\ last'.err = "ok"
Mutated(t) == (Did("mutate") \/ Did("setitem")) /\ last'.dst = t
\* The values a successful t[:] = ... wrote, read before the step.
Written == IF last'.src = "" THEN <<TEN>> ELSE Read(heap, env, last'.src, "data")
NoNewBuffer == \A i \in BufIds : heap'[i].alive => heap[i].alive
\* What reading the handle y gives after a write through a handle with the
\* same view: the written values, or one element set to TEN.
SeesWrite(y) ==
    LET old == Read(heap, env, y, "data")
        new == Read(heap', env', y, "data")
    IN IF last'.op = "mutate"
       THEN new = [i \in 1..Len(old) |-> IF Len(Written) = 1 THEN Written[1] ELSE Written[i]]
       ELSE \E i \in 1..Len(old) : new = [old EXCEPT ![i] = TEN]
\* A write reaches no Buffer but those of the handle written through.
WriteStaysInHandle ==
    \A t \in AllNames : Mutated(t) =>
        \A i \in BufIds : i \notin Reachable(env[t]) => heap'[i] = heap[i]
\* Row r of a composite's data, and the source of a slice request.
RowOf(hnd, r) == SubSeq(heap[hnd.buf].data, r * NCols + 1, (r + 1) * NCols)
SliceSource(s, r) ==
    IF env[s].kind = "array" THEN Read(heap, env, s, "data") ELSE RowOf(env[s], r)

\* C1: b = a gives b the very Buffer and view of a and allocates no
\* Buffer; from then on a write through either name (t[:] = values or
\* t[i] = 10) is read through the other.
C1_BindAliases ==
    [][\A x \in Names, y \in AllNames :
        /\ Did("bind") /\ last'.dst = x /\ last'.src = y =>
              /\ SharesBuffer(env'[x], env'[y])
              /\ env'[x] = env[y]
              /\ NoNewBuffer
        /\ Mutated(x) /\ env[x].kind = "array" /\ env[y] = env[x] => SeesWrite(y)
        /\ Mutated(y) /\ env[y].kind = "array" /\ env[x] = env[y] => SeesWrite(x)
      ]_vars

\* a = [1, 2, 3], b = a, b[2] = 10: a reads [1, 2, 10].
C1_Witness ==
    /\ last = Ok("setitem", "b", "")
    /\ env["a"].kind = "array"
    /\ env["b"] = env["a"]
    /\ Read(heap, env, "a", "data") = [Iota(MaxLen) EXCEPT ![MaxLen] = TEN]

\* C2: an in-range slice d = s[start:stop] (d = s[r, start:stop].values of
\* a DataArray) is a view: it allocates nothing, references the Buffer of
\* s and reads the selected elements of s; and a write through an array
\* handle changes, in every handle on the same Buffer, exactly the elements
\* that lie in the written view.
C2_SliceIsView ==
    [][/\ StepOf("slice") =>
            LET d == last'.dst
                s == last'.src
                q == last'.arg
                src == SliceSource(s, q[1])
            IN ((env[s].kind = "composite" => q[1] < NRows) /\ q[3] <= Len(src)) =>
                  /\ last'.err = "ok"
                  /\ SharesBuffer(env'[d], env[s])
                  /\ NoNewBuffer
                  /\ \A i \in BufIds : heap'[i].alive => heap'[i] = heap[i]
                  /\ Read(heap', env', d, "data") = SubSeq(src, q[2] + 1, q[3])
       /\ \A t \in Names, y \in AllNames :
            Mutated(t) /\ env[t].kind = "array" /\ SharesBuffer(env[y], env[t]) =>
               LET vt == View(env[t], "data")
                   vy == View(env[y], "data")
                   old == heap[vt.buf].data
                   new == heap'[vt.buf].data
               IN /\ Len(new) = Len(old)
                  /\ \A p \in (vy.lo + 1)..vy.hi :
                       IF vt.lo < p /\ p <= vt.hi
                       THEN IF last'.op = "mutate"
                            THEN new[p] = (IF Len(Written) = 1 THEN Written[1]
                                           ELSE Written[p - vt.lo])
                            ELSE new[p] \in {old[p], TEN}
                       ELSE new[p] = old[p]
                  /\ last'.op = "setitem" =>
                       Cardinality({p \in 1..Len(old) : new[p] # old[p]}) <= 1
      ]_vars

\* b = SSH[0, 0:NCols].values, b[:] = 10: row 0 of SSH reads 10, the other
\* rows are as they were.
C2_Witness ==
    /\ last = Ok("mutate", "b", "")
    /\ env["b"] = Arr(env[SSH].buf, 0, NCols)
    /\ Read(heap, env, SSH, "data") =
          [i \in 1..(NRows * NCols) |-> IF i <= NCols THEN TEN ELSE i]

\* C3: a successful d = l op right (right a scalar, 0 included, or an
\* array) allocates a Buffer that was not in use, which no other handle
\* references, and changes no Buffer; a write through d right after leaves
\* the operands as they were, and no write reaches a Buffer other than the
\* written handle's.
C3_OpAllocates ==
    [][/\ Did("op") =>
            LET d == last'.dst
                nb == env'[d].buf
            IN /\ env'[d].kind = "array"
               /\ ~heap[nb].alive
               /\ heap'[nb].alive
               /\ \A y \in AllNames : y # d => ~SharesBuffer(env'[d], env'[y])
               /\ \A y \in AllNames : env[y].kind # "none" =>
                     ~SharesBuffer(env'[d], env[y])
               /\ \A i \in BufIds : heap[i].alive /\ heap'[i].alive => heap'[i] = heap[i]
       /\ last.op = "op" /\ last.err = "ok" /\ Mutated(last.dst) =>
            \A y \in AllNames : y # last.dst /\ env[y].kind # "none" =>
               \A part \in Parts : Read(heap', env', y, part) = Read(heap, env, y, part)
       /\ WriteStaysInHandle
      ]_vars

\* a = [1, 2, 3], b = a + 0, b[2] = 10: a reads [1, 2, 3], b reads [1, 2, 10].
C3_Witness ==
    /\ last = Ok("setitem", "b", "")
    /\ env["a"].kind = "array"
    /\ ~SharesBuffer(env["a"], env["b"])
    /\ Read(heap, env, "a", "data") = Iota(MaxLen)
    /\ Read(heap, env, "b", "data") = [Iota(MaxLen) EXCEPT ![MaxLen] = TEN]

\* C4: d = np.copy(s) of an array s allocates a Buffer that was not in
\* use and that no other handle references, holding the elements of s's
\* view at that time; a write through either right after, or through any
\* handle that does not reference d's Buffer, leaves the other unchanged.
C4_CopyIsIndependent ==
    [][/\ Did("copy") /\ env[last'.src].kind = "array" =>
            LET d == last'.dst
                s == last'.src
            IN /\ env'[d].kind = "array"
               /\ ~heap[env'[d].buf].alive
               /\ ~SharesBuffer(env'[d], env[s])
               /\ \A y \in AllNames : y # d => ~SharesBuffer(env'[d], env'[y])
               /\ Read(heap', env', d, "data") = Read(heap, env, s, "data")
               /\ \A i \in BufIds : heap[i].alive /\ heap'[i].alive => heap'[i] = heap[i]
       /\ last.op = "copy" /\ env[last.dst].kind = "array" =>
            \A t \in AllNames : Mutated(t) =>
               \A y \in AllNames :
                  env[y].kind # "none" /\ (IF t = last.dst THEN y # t ELSE y = last.dst) =>
                     \A part \in Parts :
                        Read(heap', env', y, part) = Read(heap, env, y, part)
      ]_vars

\* b = np.copy(a), a[:] = 10: b still reads [1, 2, 3].
C4_Witness ==
    /\ last = Ok("mutate", "a", "")
    /\ env["b"].kind = "array"
    /\ ~SharesBuffer(env["a"], env["b"])
    /\ Read(heap, env, "a", "data") = [i \in 1..MaxLen |-> TEN]
    /\ Read(heap, env, "b", "data") = Iota(MaxLen)

\* C5: d = deepcopy(s) of a composite s gives d Buffers that were not in
\* use, data and coordinate, none of them reachable from s or from any
\* other handle, holding what s's Buffers hold; a write to the data or to
\* the coordinate of d right after leaves s as it was.
C5_DeepCopyShareNothing ==
    [][/\ Did("deepcopy") /\ env[last'.src].kind = "composite" =>
            LET d == last'.dst
                s == last'.src
            IN /\ env'[d].kind = "composite"
               /\ env'[d].buf # env'[d].cbuf
               /\ Reachable(env'[d]) \cap Reachable(env[s]) = {}
               /\ \A i \in Reachable(env'[d]) : ~heap[i].alive /\ heap'[i].alive
               /\ \A y \in AllNames : y # d =>
                     Reachable(env'[d]) \cap Reachable(env'[y]) = {}
               /\ \A part \in Parts :
                     Read(heap', env', d, part) = Read(heap, env, s, part)
               /\ \A i \in BufIds : heap[i].alive /\ heap'[i].alive => heap'[i] = heap[i]
       /\ last.op = "deepcopy" /\ env[last.dst].kind = "composite" /\ Mutated(last.dst) =>
            \A y \in AllNames : y # last.dst /\ env[y].kind # "none" =>
               \A part \in Parts : Read(heap', env', y, part) = Read(heap, env, y, part)
      ]_vars

\* b = deepcopy(SSH), b[:] = 10: b's data reads 10, SSH is as loaded.
C5_Witness ==
    /\ last = Ok("mutate", "b", "")
    /\ env["b"].kind = "composite"
    /\ Reachable(env["b"]) \cap Reachable(env[SSH]) = {}
    /\ Read(heap, env, "b", "data") = [i \in 1..(NRows * NCols) |-> TEN]
    /\ Read(heap, env, SSH, "data") = Iota(NRows * NCols)
    /\ Read(heap, env, SSH, "coord") = Iota(NCols)

\* C6: a shallow copy d of a composite s has the nested handles of s (the
\* same data Buffer, the same coordinate Buffer) and allocates nothing; a
\* write to the data or the coordinate of d is read through s.
C6_ShallowCopySharesNested ==
    [][/\ Did("copy") /\ env[last'.src].kind = "composite" =>
            LET d == last'.dst
                s == last'.src
            IN /\ env'[d].kind = "composite"
               /\ env'[d].buf = env[s].buf
               /\ env'[d].cbuf = env[s].cbuf
               /\ NoNewBuffer
       /\ last.op = "copy" /\ env[last.dst].kind = "composite"
          /\ env[last.src].kind = "composite" /\ Did("mutate") /\ last'.dst = last.dst =>
            LET w == [i \in 1..NCols |-> IF Len(Written) = 1 THEN Written[1] ELSE Written[i]]
            IN \/ Read(heap', env', last.src, "coord") = w
               \/ \A r \in 0..(NRows - 1) :
                     SubSeq(Read(heap', env', last.src, "data"),
                            r * NCols + 1, (r + 1) * NCols) = w
      ]_vars

\* b = copy(SSH), then 10 is written to b's coordinate: SSH's coordinate
\* reads 10.
C6_Witness ==
    /\ last = Ok("mutate", "b", "")
    /\ env["b"].kind = "composite"
    /\ env["b"] = env[SSH]
    /\ Read(heap, env, SSH, "coord") = [i \in 1..NCols |-> TEN]
    /\ Read(heap, env, SSH, "data") = Iota(NRows * NCols)

\* C7 as stated: a slice any of whose ranges or indices exceeds the
\* source's shape fails with IndexOutOfRange and changes nothing.
C7_Original ==
    [][StepOf("slice") =>
         LET s == last'.src
             q == last'.arg
             n == IF env[s].kind = "array" THEN env[s].hi - env[s].lo ELSE NCols
         IN ((env[s].kind = "composite" /\ q[1] >= NRows) \/ q[3] > n) =>
               /\ last'.err = "IndexOutOfRange"
               /\ env' = env
               /\ heap' = heap
      ]_vars

\* C7, amended: a slice whose integer index exceeds the source's shape
\* fails with IndexOutOfRange, creates no handle and changes no Buffer and
\* no handle; a range start:stop that exceeds the shape does not fail: it
\* is cut at the end of the dimension and the slice is the (possibly empty)
\* view of what is left.
C7_IndexChecked_RangeClamped ==
    [][StepOf("slice") =>
         LET d == last'.dst
             s == last'.src
             q == last'.arg
             src == SliceSource(s, q[1])
         IN IF env[s].kind = "composite" /\ q[1] >= NRows
            THEN /\ last'.err = "IndexOutOfRange"
                 /\ env' = env
                 /\ heap' = heap
            ELSE /\ last'.err = "ok"
                 /\ Read(heap', env', d, "data") =
                       SubSeq(src, q[2] + 1, IF q[3] > Len(src) THEN Len(src) ELSE q[3])
                 /\ SharesBuffer(env'[d], env[s])
      ]_vars

\* b = SSH[NRows, ...].values fails; b stays unbound and nothing changed.
C7_Witness ==
    /\ last = Done("slice", "b", SSH, <<NRows, 0, NCols>>, "IndexOutOfRange")
    /\ env["b"] = None
    /\ steps = 1

\* C8: d = l op r on two arrays whose lengths differ, neither being 1,
\* fails with ShapeMismatch: d keeps its handle, no Buffer is allocated or
\* changed.
C8_OpShapeMismatch ==
    [][StepOf("op") =>
         \A op \in OpNames, r \in Names :
            LET d == last'.dst
                l == last'.src
                m == Len(Read(heap, env, l, "data"))
                n == Len(Read(heap, env, r, "data"))
            IN ElementwiseOp(d, op, l, r, 0) /\ m # n /\ m # 1 /\ n # 1
               => /\ last'.err = "ShapeMismatch"
                  /\ env' = env
                  /\ heap' = heap
      ]_vars

\* b = a[0:2], b = a * b with shapes (3,) and (2,): ShapeMismatch, b is
\* still the slice.
C8_Witness ==
    /\ last = Fail("op", "b", "a", "ShapeMismatch")
    /\ env["a"].kind = "array"
    /\ env["b"].kind = "array"
    /\ env["b"].buf = env["a"].buf
    /\ Len(Read(heap, env, "b", "data")) = 2
    /\ Len(Read(heap, env, "a", "data")) = MaxLen

\* The shape of what t[:] = ... writes and of the view written: () for a
\* scalar, (n,) for an array, (NRows, NCols) for a composite's data.
ShapeOfValues(s) == IF s = "" THEN <<>> ELSE <<Len(Read(heap, env, s, "data"))>>
ShapeOfTarget(t, part) ==
    IF env[t].kind = "array" THEN <<env[t].hi - env[t].lo>>
    ELSE IF part = "data" THEN <<NRows, NCols>> ELSE <<NCols>>

\* C9 as stated: t[:] = values fails with ShapeMismatch whenever the shape
\* of values is not the shape of t's view, and a failure changes nothing.
C9_Original ==
    [][StepOf("mutate") =>
         \A part \in Parts :
            LET t == last'.dst
                s == last'.src
            IN MutateInPlace(t, part, s, TEN) =>
                 /\ ShapeOfValues(s) # ShapeOfTarget(t, part) => last'.err = "ShapeMismatch"
                 /\ last'.err # "ok" => heap' = heap /\ env' = env
      ]_vars

\* C9, amended: t[:] = values fails with ShapeMismatch whenever values
\* cannot be broadcast to the shape of t's view, that is when values is an
\* array of more than one element (or of none) whose length is not the
\* length of the view's last dimension; a scalar is accepted by every view.
\* A failure changes no element of any Buffer and no handle.
C9_MutateShapeMismatch ==
    [][StepOf("mutate") =>
         \A part \in Parts :
            LET t == last'.dst
                s == last'.src
                vs == ShapeOfValues(s)
                vt == ShapeOfTarget(t, part)
            IN MutateInPlace(t, part, s, TEN) =>
                 /\ vs # <<>> /\ vs[1] # 1 /\ vs[1] # vt[Len(vt)] => last'.err = "ShapeMismatch"
                 /\ vs = <<>> => last'.err = "ok"
                 /\ last'.err # "ok" => heap' = heap /\ env' = env
      ]_vars

\* b = a[0:2], a[:] = b with shapes (3,) and (2,): ShapeMismatch, a reads
\* [1, 2, 3] as before.
C9_Witness ==
    /\ last = Fail("mutate", "a", "b", "ShapeMismatch")
    /\ env["a"].kind = "array"
    /\ env["b"].kind = "array"
    /\ Len(Read(heap, env, "b", "data")) = 2
    /\ Read(heap, env, "a", "data") = Iota(MaxLen)

\* C10: every Buffer a handle references is in memory, and every Buffer in
\* memory is referenced by some handle: a Buffer is released with its last
\* handle and not before.
C10_BufferLifetime ==
    /\ \A n \in AllNames : \A i \in Reachable(env[n]) : heap[i].alive
    /\ \A i \in BufIds : heap[i].alive => \E n \in AllNames : i \in Reachable(env[n])

\* b = a, a = np.array(...): the first Buffer lives on for b, and the
\* Buffer of the new array is in memory too.
C10_Witness ==
    /\ last = Ok("new", "a", "a")
    /\ env["b"] = Arr(1, 0, MaxLen)
    /\ env["a"].buf # 1
    /\ heap[1].alive
    /\ heap[env["a"].buf].alive

\* The views held by the names of e, the Buffer positions two views have in
\* common, and the element at Buffer position p as read through view v.
Views(e) == {View(e[n], part) : n \in {m \in AllNames : e[m].kind # "none"}, part \in Parts}
Overlap(v, u) == IF v.buf = u.buf THEN (Max(v.lo, u.lo) + 1)..Min(v.hi, u.hi) ELSE {}
At(h, v, p) == ReadView(h, v)[p - v.lo]

\* Two handles on one Buffer read the same value at every element that
\* both of their views cover.
Agree ==
    \A x \in AllNames, y \in AllNames, part \in Parts :
        x # y /\ env[x].kind # "none" /\ env[y].kind # "none" =>
           LET v == View(env[x], part)
               u == View(env[y], part)
           IN \A p \in Overlap(v, u) : At(heap, v, p) = At(heap, u, p)

\* C11: in every state, two handles on one Buffer read the same value at
\* every element both views cover; and a successful t[:] = values is read,
\* at every element of t's view, through every handle that referenced that
\* Buffer before the write (t itself, the handles t was sliced or bound
\* from, the original), whose views are as they were.
C11_AliasesObserveWrites ==
    /\ []Agree
    /\ [][Did("mutate") =>
            \E part \in Parts :
               LET t == last'.dst
                   vt == View(env[t], part)
                   n == vt.hi - vt.lo
                   w == IF env[t].kind = "array" THEN n ELSE NCols
                   vals == Tile(Written, n, w)
               IN /\ Views(env) \subseteq Views(env')
                  /\ \A u \in Views(env) : \A p \in Overlap(vt, u) :
                        /\ heap'[u.buf].alive
                        /\ At(heap', u, p) = vals[p - vt.lo]
        ]_vars

\* b = a[1:], b = b[:-1], b[:] = 10: b is a slice of a slice of a, and a
\* reads 10 at the one element b covers.
C11_Witness ==
    /\ last = Ok("mutate", "b", "")
    /\ steps = MaxChain
    /\ env["a"] = Arr(1, 0, MaxLen)
    /\ env["b"] = Arr(1, 1, MaxLen - 1)
    /\ Read(heap, env, "a", "data") =
          [i \in 1..MaxLen |-> IF 1 < i /\ i < MaxLen THEN TEN ELSE i]

\* C12: a successful t[:] = values changes the elements of t's view (of the
\* data or of the coordinate of a DataArray t) to the written values and
\* nothing else: the other elements of that Buffer, every other Buffer,
\* the handles and the Buffer each handle references are as they were.
C12_MutateFrame ==
    [][Did("mutate") =>
          \E part \in Parts :
             LET t == last'.dst
                 vt == View(env[t], part)
                 n == vt.hi - vt.lo
                 w == IF env[t].kind = "array" THEN n ELSE NCols
                 vals == Tile(Written, n, w)
                 old == heap[vt.buf].data
                 new == heap'[vt.buf].data
             IN /\ env' = env
                /\ \A i \in BufIds \ {vt.buf} : heap'[i] = heap[i]
                /\ heap'[vt.buf].alive
                /\ Len(new) = Len(old)
                /\ \A p \in 1..Len(old) :
                      new[p] = IF vt.lo < p /\ p <= vt.hi THEN vals[p - vt.lo] ELSE old[p]
      ]_vars

\* b = SSH[1, 1:NCols].values, b[:] = 10: the elements of row 1 from
\* column 1 on read 10, every other element of SSH is as it was.
C12_Witness ==
    /\ last = Ok("mutate", "b", "")
    /\ env["b"] = Arr(env[SSH].buf, NCols + 1, 2 * NCols)
    /\ env[SSH] = Comp(2, 3)
    /\ Read(heap, env, SSH, "data") =
          [i \in 1..(NRows * NCols) |->
              IF NCols + 1 < i /\ i <= 2 * NCols THEN TEN ELSE i]
    /\ Read(heap, env, SSH, "coord") = Iota(NCols)
    /\ Read(heap, env, "a", "data") = Iota(MaxLen)
====
